---- MODULE Spec2Model ----
(***************************************************************************)
(* Model of the CSV -> JSON stock item converter.                          *)
(*                                                                         *)
(*   library : src/src/lbgotest.com/lb/stockdatalib/stockdata_test.go      *)
(*             lines 110-482 (Cents, CentsFromDollarString,                *)
(*             VerifyCsvFields, ModifierFromStrings, StockItem.ReadItem)   *)
(*   driver  : src/src/lbgotest.com/lb/stockitems_csv_to_json/             *)
(*             stockitems_csv_to_json.go (doConversion, exitError, main)   *)
(*                                                                         *)
(* Text is modelled as a sequence of one-character strings, so that        *)
(* indexing (s[0]), slicing (s[1:]) and splitting are computed as the code *)
(* computes them.  A CSV row is a sequence of such fields.                 *)
(***************************************************************************)
EXTENDS Integers, Sequences, FiniteSets, TLC

\* ------------------------------------------------------------------------
\* Bounds of the model
\* ------------------------------------------------------------------------

\* longest monetary text drawn as an input of the parser
MaxLen == 5

\* largest magnitude of a cents value drawn as an input of the formatter
MaxCents == 999999

\* largest number of data rows in an input file
MaxRows == 3

\* largest number of modifier name/price pairs in a row drawn as an input of
\* the record decoder (one more than the four slots the decoder allocates)
MaxSlots == 5

\* largest number of dollars above 2^53 in a value drawn as an input of
\* MarshalJSON
MaxOver == 4

\* ------------------------------------------------------------------------
\* Go arithmetic and strconv / strings helpers
\* ------------------------------------------------------------------------

Abs(x) == IF x < 0 THEN -x ELSE x

\* Go's integer division truncates toward zero
Quot(a, b) == IF a >= 0 THEN a \div b ELSE -((-a) \div b)

\* Go's % takes the sign of the dividend
Rem(a, b) == a - b * Quot(a, b)

DigitChars == {"0", "1", "2", "3", "4", "5", "6", "7", "8", "9"}

DigitSeq == <<"0", "1", "2", "3", "4", "5", "6", "7", "8", "9">>

DigitVal(ch) == (CHOOSE i \in 1..10 : DigitSeq[i] = ch) - 1

\* fmt's %d of a non-negative integer
RECURSIVE FormatUint(_)
FormatUint(n) ==
    IF n < 10 THEN <<DigitSeq[n + 1]>>
    ELSE FormatUint(n \div 10) \o <<DigitSeq[(n % 10) + 1]>>

\* fmt's %02d of a non-negative integer
FormatPad2(n) == IF n < 10 THEN <<"0">> \o FormatUint(n) ELSE FormatUint(n)

\* result of strconv.ParseInt: ok = (err == nil)
IntOk(v) == [ok |-> TRUE, val |-> v]

IntErr == [ok |-> FALSE, val |-> 0]

\* strconv.ParseUint(s, 10, 64) on a non-empty text of digits
RECURSIVE UintVal(_)
UintVal(s) ==
    IF Len(s) = 0 THEN 0
    ELSE UintVal(SubSeq(s, 1, Len(s) - 1)) * 10 + DigitVal(s[Len(s)])

\* strconv.ParseInt(s, 10, 64): an optional sign, then one or more digits.
\* The range errors of 64-bit values need 19 digits and are not reached
\* by the texts of this model.
ParseInt(s) ==
    IF Len(s) = 0 THEN IntErr
    ELSE LET neg  == s[1] = "-"
             rest == IF s[1] \in {"+", "-"} THEN Tail(s) ELSE s
         IN IF Len(rest) = 0 THEN IntErr
            ELSE IF \E i \in 1..Len(rest) : rest[i] \notin DigitChars THEN IntErr
            ELSE IF neg THEN IntOk(-UintVal(rest))
            ELSE IntOk(UintVal(rest))

\* strings.Split(s, "."): the texts between the decimal points
RECURSIVE SplitDot(_)
SplitDot(s) ==
    IF \A i \in 1..Len(s) : s[i] # "."
    THEN <<s>>
    ELSE LET k == CHOOSE i \in 1..Len(s) :
                      s[i] = "." /\ \A j \in 1..(i - 1) : s[j] # "."
         IN <<SubSeq(s, 1, k - 1)>> \o SplitDot(SubSeq(s, k + 1, Len(s)))

\* ------------------------------------------------------------------------
\* Cents: formatting and parsing
\* ------------------------------------------------------------------------

\* outcomes of a call returning (*Cents, error); "panic" is a run-time
\* index-out-of-range fault
CentsNil == [kind |-> "nil", val |-> 0, err |-> ""]

CentsVal(v) == [kind |-> "cents", val |-> v, err |-> ""]

CentsErr(m) == [kind |-> "err", val |-> 0, err |-> m]

CentsPanic == [kind |-> "panic", val |-> 0, err |-> ""]

\* a formatter that takes the sign from the printed dollars part
MarshalJSON_SignFromDollars(c) ==
    LET dollars == Quot(c, 100)
        sign    == IF dollars < 0 THEN <<"-">> ELSE <<>>
    IN sign \o FormatUint(Abs(dollars)) \o <<".">> \o FormatPad2(Abs(Rem(c, 100)))

\* func (c *Cents) MarshalJSON(): "%s%d.%02d" of sign, |c / 100|, |c % 100|
MarshalJSON(c) ==
    LET sign         == IF c < 0 THEN <<"-">> ELSE <<>>
        dollars_only == Abs(Quot(c, 100))
        cents_only   == Abs(Rem(c, 100))
    IN sign \o FormatUint(dollars_only) \o <<".">> \o FormatPad2(cents_only)

\* float64(2^53 + k) less 2^53, for 0 <= k < 2^53.  A float64 has a 53-bit
\* significand: from 2^53 on only the even integers are float64 values, and
\* an odd integer goes to the neighbour whose significand is even.  (Every
\* integer below 2^53 is a float64 value, so the conversions leave the
\* values MarshalJSON above is applied to as they are.)
Float64Over(k) ==
    IF k % 2 = 0 THEN k
    ELSE IF (k + 1) % 4 = 0 THEN k + 1
    ELSE k - 1

\* "%d" of 2^53 + k = 9007199254740992 + k, for k below 59008
FormatOver(k) ==
    <<"9", "0", "0", "7", "1", "9", "9", "2", "5", "4", "7">> \o FormatUint(40992 + k)

\* Cents.MarshalJSON on the value of magnitude (2^53 + over) dollars and
\* cents_part cents:
\*   dollars_only := int64(math.Abs(float64((*c) / 100)))
\*   cents_only := int64(math.Abs(float64((*c) % 100)))
MarshalJSONOver(is_negative, over, cents_part) ==
    LET sign         == IF is_negative THEN <<"-">> ELSE <<>>
        dollars_over == Float64Over(over)
        cents_only   == cents_part
    IN sign \o FormatOver(dollars_over) \o <<".">> \o FormatPad2(cents_only)

\* a currency strip that takes the first character to be the symbol
StripDollar_Always(str) == Tail(str)

\* if str[0] == '$' { str = str[1:] } else { continue regardless }
StripDollar(str) == IF str[1] = "$" THEN Tail(str) ELSE str

\* a sign step that leaves the value as parsed
ApplySign_Dropped(val, is_negative) == val

\* if is_negative { val = -val }
ApplySign(val, is_negative) == IF is_negative THEN -val ELSE val

\* the part of CentsFromDollarString after sign and currency symbol:
\* split on ".", parse dollars and fraction, build the cents value
DollarsAndCents(str, is_negative) ==
    LET parts     == SplitDot(str)
        num_parts == Len(parts)
    IN IF num_parts = 0 \/ num_parts > 2
       THEN CentsErr("too many decimal points")
       ELSE LET dollar == IF Len(parts[1]) > 0 THEN ParseInt(parts[1])
                          ELSE IntOk(0)
            IN IF ~dollar.ok THEN CentsErr("integer part")
               ELSE LET frac == IF num_parts = 2 THEN ParseInt(parts[2])
                                ELSE IntOk(0)
                    IN IF ~frac.ok THEN CentsErr("fractional part")
                       \* the 0-99 test is guarded by frac_err != nil, and
                       \* frac_err is nil whenever this point is reached
                       ELSE IF (frac.val < 0 \/ frac.val > 99) /\ ~frac.ok
                       THEN CentsErr("not a valid number of cents")
                       ELSE CentsVal(ApplySign((dollar.val * 100) + frac.val,
                                               is_negative))

\* an empty text read as an amount of zero cents
EmptyAmount_Zero ==
    CentsVal(0)

\* if str == "" { return nil, nil }
EmptyAmount ==
    CentsNil

\* func CentsFromDollarString(s string) (*Cents, error)
CentsFromDollarString(s) ==
    IF Len(s) = 0 THEN EmptyAmount
    ELSE LET is_negative == s[1] = "-"
             str         == IF is_negative THEN Tail(s) ELSE s
         IN \* str[0] of an empty text is an index out of range
            IF Len(str) = 0 THEN CentsPanic
            ELSE DollarsAndCents(StripDollar(str), is_negative)

\* ------------------------------------------------------------------------
\* CSV rows and the csv.Reader
\* ------------------------------------------------------------------------

\* one line of the input file as the tokenizer sees it: its fields, or a
\* line on which csv.Reader.Read returns an error (for example a bare quote)
Line(fields) == [bad |-> FALSE, fields |-> fields]

BadCsv == [bad |-> TRUE, fields |-> <<>>]

\* reader.Read() with `pos` lines already consumed.  The reader is passed by
\* value, so FieldsPerRecord is never remembered between calls and rows of
\* any length are returned.
Read(file, pos) ==
    IF pos >= Len(file) THEN [kind |-> "eof", raw_dat |-> <<>>]
    ELSE IF file[pos + 1].bad THEN [kind |-> "err", raw_dat |-> <<>>]
    ELSE [kind |-> "row", raw_dat |-> file[pos + 1].fields]

\* ------------------------------------------------------------------------
\* Schema validator
\* ------------------------------------------------------------------------

\* expected_fields of VerifyCsvFields
expected_fields ==
    << <<"i", "t", "e", "m", " ", "i", "d">>,
       <<"d", "e", "s", "c", "r", "i", "p", "t", "i", "o", "n">>,
       <<"p", "r", "i", "c", "e">>,
       <<"c", "o", "s", "t">>,
       <<"p", "r", "i", "c", "e", "_", "t", "y", "p", "e">>,
       <<"q", "u", "a", "n", "t", "i", "t", "y", "_", "o", "n", "_", "h", "a", "n", "d">>,
       <<"m", "o", "d", "i", "f", "i", "e", "r", "_", "1", "_", "n", "a", "m", "e">>,
       <<"m", "o", "d", "i", "f", "i", "e", "r", "_", "1", "_", "p", "r", "i", "c", "e">>,
       <<"m", "o", "d", "i", "f", "i", "e", "r", "_", "2", "_", "n", "a", "m", "e">>,
       <<"m", "o", "d", "i", "f", "i", "e", "r", "_", "2", "_", "p", "r", "i", "c", "e">>,
       <<"m", "o", "d", "i", "f", "i", "e", "r", "_", "3", "_", "n", "a", "m", "e">>,
       <<"m", "o", "d", "i", "f", "i", "e", "r", "_", "3", "_", "p", "r", "i", "c", "e">> >>

VerifyOk ==
    [ok |-> TRUE, form |-> "", expected |-> <<>>, got |-> <<>>, after |-> <<>>]

VerifyErr(form, expected, got, after) ==
    [ok |-> FALSE, form |-> form, expected |-> expected, got |-> got,
     after |-> after]

\* a comparison that looks at the first column only
FieldMismatch_FirstOnly(raw_dat, i) ==
    i = 1 /\ expected_fields[i] # raw_dat[i]

\* if expected_field != raw_dat[i], for the field at position i
FieldMismatch(raw_dat, i) ==
    expected_fields[i] # raw_dat[i]

\* func VerifyCsvFields(reader csv.Reader) error, given what reader.Read()
\* returned.  last_field is declared nil and never assigned.
VerifyCsvFields(rd) ==
    IF rd.kind # "row" THEN VerifyErr("read", <<>>, <<>>, <<>>)
    ELSE LET raw_dat             == rd.raw_dat
             num_fields          == Len(raw_dat)
             num_expected_fields == Len(expected_fields)
             last_field_is_nil   == TRUE
         IN IF num_fields # num_expected_fields
            THEN VerifyErr("count", <<>>, <<>>, <<>>)
            ELSE IF \E i \in 1..num_expected_fields : FieldMismatch(raw_dat, i)
            THEN LET i == CHOOSE k \in 1..num_expected_fields :
                              /\ FieldMismatch(raw_dat, k)
                              /\ \A j \in 1..(k - 1) : ~FieldMismatch(raw_dat, j)
                 IN IF ~last_field_is_nil
                    THEN VerifyErr("after", expected_fields[i], raw_dat[i],
                                   expected_fields[i - 1])
                    ELSE VerifyErr("first", expected_fields[i], raw_dat[i], <<>>)
            ELSE VerifyOk

\* ------------------------------------------------------------------------
\* Record decoder
\* ------------------------------------------------------------------------

MIN_STOCK_ITEM_FIELDS == 5

all_modifiers_start_idx == 6

\* a *Quantity: nil or a value
QuantityNil == [kind |-> "nil", val |-> 0]

\* func QuantityFromString(s string) (*Quantity, error)
QuantityFromString(s) ==
    IF Len(s) = 0 THEN QuantityNil
    ELSE LET p == ParseInt(s)
         IN IF ~p.ok THEN [kind |-> "err", val |-> 0]
            ELSE [kind |-> "val", val |-> p.val]

\* the zero value of Modifier
ZeroModifier == [Name |-> <<>>, Price |-> 0]

ModOk(name, price) == [kind |-> "ok", mod |-> [Name |-> name, Price |-> price], err |-> ""]

ModFail(kind, err) == [kind |-> kind, mod |-> ZeroModifier, err |-> err]

\* a named modifier without a price taken to cost nothing
MissingPriceError_Zero(name_str) ==
    ModOk(name_str, 0)

\* "No cents found in dollar string %s, for modifier %s.  Cents are expected
\* here."
MissingPriceError(name_str) ==
    ModFail("err", "no cents found")

\* func ModifierFromStrings(name_str, price_str string) (*Modifier, error)
ModifierFromStrings(name_str, price_str) ==
    IF Len(name_str) = 0 THEN ModFail("err", "modifier with no name")
    ELSE LET cents == CentsFromDollarString(price_str)
         IN IF cents.kind = "panic" THEN ModFail("panic", "")
            ELSE IF cents.kind = "err" THEN ModFail("err", cents.err)
            ELSE IF cents.kind = "nil" THEN MissingPriceError(name_str)
            ELSE ModOk(name_str, cents.val)

\* var stock_item stockdatalib.StockItem: the zero value
ZeroItem ==
    [Item_id          |-> 0,
     Description      |-> <<>>,
     Price            |-> CentsNil,
     Cost             |-> CentsNil,
     Price_type       |-> <<>>,
     Quantity_on_hand |-> QuantityNil,
     Modifiers        |-> <<>>]

\* what ReadItem leaves behind: how it ended, its error, and the fields of
\* the StockItem it was called on
ItemResult(kind, err, item) ==
    [kind |-> kind, err |-> err, args |-> <<>>, item |-> item]

\* an error whose message is formatted from values: args are those values
ItemError(err, args, item) ==
    [kind |-> "err", err |-> err, args |-> args, item |-> item]

\* a length check that comes after the item id was parsed and stored
TooFewFieldsError_AfterId(item, raw_dat) ==
    ItemError("too few fields", <<Len(raw_dat), MIN_STOCK_ITEM_FIELDS>>,
              [item EXCEPT !.Item_id = ParseInt(raw_dat[1]).val])

\* "StockItem has too few fields (%d); expected at least %d (up to
\* price_type)." of raw_dat_len and MIN_STOCK_ITEM_FIELDS, returned before
\* any field is parsed
TooFewFieldsError(item, raw_dat) ==
    ItemError("too few fields", <<Len(raw_dat), MIN_STOCK_ITEM_FIELDS>>, item)

\* raw_dat[2], the text of the price column
PriceField_Cost(raw_dat) == raw_dat[4]

PriceField(raw_dat) == raw_dat[3]

\* raw_dat[3], the text of the cost column
CostField(raw_dat) == raw_dat[4]

PriceTypeSystem == <<"s", "y", "s", "t", "e", "m">>

PriceTypeOpen == <<"o", "p", "e", "n">>

\* a price_type test that takes any non-empty text
IsPriceType_AnyText(text) == Len(text) > 0

\* switch raw_dat[4] { case "system": ... case "open": ... default: error }
IsPriceType(text) == text \in {PriceTypeSystem, PriceTypeOpen}

\* a name without its price field taken as the end of the modifiers
HalfModifierError_Ignored(item) ==
    ItemResult("ok", "", item)

\* "... has only one of two fields present. Expected all fields, or none."
HalfModifierError(item) ==
    ItemResult("err", "only one of two fields present", item)

\* every modifier stored in the first element
StoreModifier_First(item, i, mod) ==
    [item EXCEPT !.Modifiers = [@ EXCEPT ![1] = mod]]

\* item.Modifiers[i] = *mod
StoreModifier(item, i, mod) ==
    [item EXCEPT !.Modifiers = [@ EXCEPT ![i + 1] = mod]]

\* the modifier loop of ReadItem, from iteration i (0-based) on:
\*   for i := 0; i <= num_modifiers; i++ { ... item.Modifiers[i] = *mod }
RECURSIVE ModifierLoop(_, _, _, _)
ModifierLoop(item, raw_dat, num_modifiers, i) ==
    LET raw_dat_len  == Len(raw_dat)
        modifier_idx == all_modifiers_start_idx + (i * 2)
    IN IF i > num_modifiers THEN ItemResult("ok", "", item)
       ELSE IF raw_dat_len - 1 < modifier_idx THEN ItemResult("ok", "", item)
       ELSE IF raw_dat_len - 1 < modifier_idx + 1
       THEN HalfModifierError(item)
       ELSE LET m == ModifierFromStrings(raw_dat[modifier_idx + 1],
                                         raw_dat[modifier_idx + 2])
            IN IF m.kind # "ok" THEN ItemResult(m.kind, m.err, item)
               \* item.Modifiers[i] with i == len(item.Modifiers)
               ELSE IF i >= Len(item.Modifiers) THEN ItemResult("panic", "", item)
               ELSE ModifierLoop(StoreModifier(item, i, m.mod),
                                 raw_dat, num_modifiers, i + 1)

\* func (item *StockItem) ReadItem(reader csv.Reader) error, given what
\* reader.Read() returned; fields are stored as they are parsed
ReadItem(item, rd) ==
    IF rd.kind = "eof" THEN ItemResult("eof", "EOF", item)
    ELSE IF rd.kind = "err" THEN ItemResult("err", "read", item)
    ELSE
    LET raw_dat     == rd.raw_dat
        raw_dat_len == Len(raw_dat)
    IN
    IF raw_dat_len < MIN_STOCK_ITEM_FIELDS
    THEN TooFewFieldsError(item, raw_dat)
    ELSE
    LET id == ParseInt(raw_dat[1]) IN
    IF ~id.ok THEN ItemResult("err", "item id", item)
    ELSE
    LET item1 == [item EXCEPT !.Item_id = id.val, !.Description = raw_dat[2]]
        price == CentsFromDollarString(PriceField(raw_dat))
    IN
    IF price.kind = "panic" THEN ItemResult("panic", "", item1)
    ELSE IF price.kind = "err"
    THEN ItemResult("err", price.err, [item1 EXCEPT !.Price = CentsNil])
    ELSE
    LET item2 == [item1 EXCEPT !.Price = price]
        cost  == CentsFromDollarString(CostField(raw_dat))
    IN
    IF cost.kind = "panic" THEN ItemResult("panic", "", item2)
    ELSE IF cost.kind = "err"
    THEN ItemResult("err", cost.err, [item2 EXCEPT !.Cost = CentsNil])
    ELSE
    LET item3 == [item2 EXCEPT !.Cost = cost] IN
    IF ~IsPriceType(raw_dat[5])
    \* "Invalid price_type value: '%s'" of raw_dat[4]
    THEN ItemError("invalid price_type", <<raw_dat[5]>>, item3)
    ELSE
    LET item4    == [item3 EXCEPT !.Price_type = raw_dat[5]]
        quantity == IF raw_dat_len >= MIN_STOCK_ITEM_FIELDS + 1
                    THEN QuantityFromString(raw_dat[6])
                    ELSE QuantityNil
    IN
    IF quantity.kind = "err" THEN ItemResult("err", "quantity", item4)
    ELSE
    LET num        == Quot(raw_dat_len - all_modifiers_start_idx, 2)
        num_modifiers == IF num > 4 THEN 4 ELSE num
        item5      == [item4 EXCEPT !.Quantity_on_hand = quantity,
                                    !.Modifiers = [k \in 1..num_modifiers |-> ZeroModifier]]
    IN ModifierLoop(item5, raw_dat, num_modifiers, 0)

\* json.MarshalIndent(stock_item, ...): the members of the JSON object.
\* The *Cents fields and the modifier prices go through Cents.MarshalJSON; a
\* nil pointer is written as null.
JsonCents(p) == IF p.kind = "nil" THEN <<"n", "u", "l", "l">> ELSE MarshalJSON(p.val)

Serialize(item) ==
    [id               |-> item.Item_id,
     description      |-> item.Description,
     price            |-> JsonCents(item.Price),
     cost             |-> JsonCents(item.Cost),
     price_type       |-> item.Price_type,
     quantity_on_hand |-> item.Quantity_on_hand,
     Modifiers        |-> [k \in 1..Len(item.Modifiers) |->
                              [Name  |-> item.Modifiers[k].Name,
                               Price |-> MarshalJSON(item.Modifiers[k].Price)]]]

\* ------------------------------------------------------------------------
\* Input files of the driver
\* ------------------------------------------------------------------------

\* a header without the price_type column (11 fields)
HeaderMissingPriceType == SubSeq(expected_fields, 1, 4) \o SubSeq(expected_fields, 6, 12)

\* a header with price and cost exchanged
HeaderReordered ==
    [expected_fields EXCEPT ![3] = expected_fields[4], ![4] = expected_fields[3]]

\* a header whose first column is renamed
HeaderRenamedFirst == [expected_fields EXCEPT ![1] = <<"i", "d">>]

\* a header with a thirteenth column
HeaderExtra == Append(expected_fields, <<"n", "o", "t", "e">>)

\* the row of the given scenario
CoffeeRow ==
    << <<"1", "1", "1", "0", "1", "0">>,
       <<"C", "o", "f", "f", "e", "e">>,
       <<"$", "1", ".", "2", "5">>,
       <<"$", "0", ".", "8", "0">>,
       <<"s", "y", "s", "t", "e", "m">>,
       <<"1", "0", "0", "0", "0", "0">>,
       <<"S", "m", "a", "l", "l">>,
       <<"-", "$", "0", ".", "2", "5">>,
       <<"M", "e", "d", "i", "u", "m">>,
       <<"$", "0", ".", "0", "0">>,
       <<"L", "a", "r", "g", "e">>,
       <<"$", "0", ".", "3", "0">> >>

\* five fields, empty price, cost without currency symbol
TeaRow ==
    << <<"2">>,
       <<"T", "e", "a">>,
       <<>>,
       <<"0", ".", "8">>,
       <<"o", "p", "e", "n">> >>

\* an unrecognised price_type
BadTypeRow ==
    << <<"3">>,
       <<"M", "u", "g">>,
       <<"$", "2">>,
       <<"$", "1">>,
       <<"u", "n", "k", "n", "o", "w", "n">>,
       <<"7">> >>

\* four fields
ShortRow ==
    << <<"4">>,
       <<"C", "u", "p">>,
       <<"$", "1">>,
       <<"$", "1">> >>

\* a modifier name without its price field
HalfModRow ==
    << <<"5">>,
       <<"P", "i", "e">>,
       <<"$", "3">>,
       <<"$", "2">>,
       <<"s", "y", "s", "t", "e", "m">>,
       <<"1">>,
       <<"H", "o", "t">> >>

\* sixteen fields: a fifth complete modifier pair
SixteenRow ==
    << <<"6">>,
       <<"B", "u", "n">>,
       <<"$", "1">>,
       <<>>,
       <<"o", "p", "e", "n">>,
       <<>>,
       <<"A">>,
       <<"$", "1">>,
       <<"B">>,
       <<"$", "2">>,
       <<"C">>,
       <<"$", "3">>,
       <<"D">>,
       <<"$", "4">>,
       <<"E">>,
       <<"$", "5">> >>

\* a price that is a minus sign alone
MinusRow ==
    << <<"7">>,
       <<"J", "a", "m">>,
       <<"-">>,
       <<>>,
       <<"s", "y", "s", "t", "e", "m">> >>

HeaderLines ==
    {Line(expected_fields), Line(HeaderMissingPriceType), Line(HeaderReordered),
     Line(HeaderRenamedFirst), Line(HeaderExtra), BadCsv}

DataLines ==
    {Line(CoffeeRow), Line(TeaRow), Line(BadTypeRow), Line(ShortRow),
     Line(HalfModRow), Line(SixteenRow), Line(MinusRow), BadCsv}

\* the empty file, or a first line followed by at most MaxRows data lines
InputFiles ==
    {<<>>} \cup
    {<<h>> \o rows : h \in HeaderLines,
                     rows \in UNION {[1..n -> DataLines] : n \in 0..MaxRows}}

\* ------------------------------------------------------------------------
\* State
\* ------------------------------------------------------------------------

VARIABLES
    \* monetary functions applied on their own
    m_pc,          \* "idle", "cents", "formatted", "roundtrip", "text", "parsed"
    m_cents,       \* the cents value drawn as input of MarshalJSON
    m_text,        \* the text formatted, or the text to parse
    m_res,         \* what CentsFromDollarString returned for m_text
    m_prev_text,   \* the text before a sign or symbol was put in front of it
    m_prev_res,    \* what CentsFromDollarString returned for m_prev_text
    \* the conversion driver
    pc,            \* position in main / doConversion
    input,         \* the lines of the source file
    pos,           \* lines the csv.Reader has consumed
    srcFp,         \* "none", "open", "closed"
    dstFp,         \* "none", "open", "closed"
    out,           \* the chunks written to the destination file, in order
    at_least_one_item_written,
    stock_items,   \* the StockItem values in scope (var stock_item of the loop)
    exit_status,   \* status passed to os.Exit, meaningful once pc = "exited"
    verify_calls,  \* calls of VerifyCsvFields so far
    read_calls,    \* calls of ReadItem so far
    header_res,    \* "none", "ok", "err": what VerifyCsvFields returned
    last_read,     \* "none", "ok", "eof", "err", "panic": the last ReadItem
    write_failed,  \* some write to the destination returned an error
    \* the schema validator and the record decoder applied on their own
    l_pc,          \* "idle", "header", "verified", "row", "decoded"
    l_row,         \* the fields reader.Read() returned
    l_verify,      \* what VerifyCsvFields returned for l_row
    l_res,         \* what ReadItem returned for l_row, and the item it left
    \* Cents.MarshalJSON applied to a value of 2^53 dollars or more
    w_pc,          \* "idle", "cents", "formatted"
    w_negative,    \* the value is below zero
    w_over,        \* the dollars of the value's magnitude, less 2^53
    w_cents,       \* the cents of the value's magnitude, 0..99
    w_text         \* the text MarshalJSON returned

mvars == <<m_pc, m_cents, m_text, m_res, m_prev_text, m_prev_res>>

dvars == <<pc, input, pos, srcFp, dstFp, out, at_least_one_item_written,
           stock_items, exit_status, verify_calls, read_calls, header_res,
           last_read, write_failed>>

lvars == <<l_pc, l_row, l_verify, l_res>>

wvars == <<w_pc, w_negative, w_over, w_cents, w_text>>

vars == <<mvars, dvars, lvars, wvars>>

\* ------------------------------------------------------------------------
\* Inputs of the monetary functions
\* ------------------------------------------------------------------------

TextChars == {"-", "$", ".", "0", "1", "2", "5"}

Texts == UNION {[1..n -> TextChars] : n \in 0..MaxLen}

CentsInputs == (-MaxCents)..MaxCents

\* a dollars part of digits with an optional two-digit cents part (the
\* dollars part may be empty when the cents part is there)
IsAmountText(t) ==
    LET parts == SplitDot(t)
        AllDigits(p) == \A i \in 1..Len(p) : p[i] \in DigitChars
    IN /\ Len(parts) \in {1, 2}
       /\ AllDigits(parts[1])
       /\ Len(parts) = 1 => Len(parts[1]) > 0
       /\ Len(parts) = 2 => (Len(parts[2]) = 2 /\ AllDigits(parts[2]))

MoneyIdle ==
    /\ m_pc = "idle"
    /\ m_cents = 0
    /\ m_text = <<>>
    /\ m_res = CentsNil
    /\ m_prev_text = <<>>
    /\ m_prev_res = CentsNil

LibraryIdle ==
    /\ l_pc = "idle"
    /\ l_row = <<>>
    /\ l_verify = VerifyOk
    /\ l_res = ItemResult("none", "", ZeroItem)

LargeIdle ==
    /\ w_pc = "idle"
    /\ w_negative = FALSE
    /\ w_over = 0
    /\ w_cents = 0
    /\ w_text = <<>>

\* format the drawn cents value
Format ==
    /\ m_pc = "cents"
    /\ m_text' = MarshalJSON(m_cents)
    /\ m_pc' = "formatted"
    /\ UNCHANGED <<m_cents, m_res, m_prev_text, m_prev_res>>
    /\ UNCHANGED <<dvars, lvars, wvars>>

\* parse the formatted text back
ParseFormatted ==
    /\ m_pc = "formatted"
    /\ m_res' = CentsFromDollarString(m_text)
    /\ m_pc' = "roundtrip"
    /\ UNCHANGED <<m_cents, m_text, m_prev_text, m_prev_res>>
    /\ UNCHANGED <<dvars, lvars, wvars>>

\* parse the current text
ParseText ==
    /\ m_pc = "text"
    /\ m_res' = CentsFromDollarString(m_text)
    /\ m_pc' = "parsed"
    /\ UNCHANGED <<m_cents, m_text, m_prev_text, m_prev_res>>
    /\ UNCHANGED <<dvars, lvars, wvars>>

\* put a sign or a currency symbol in front of a parsed text, keeping the
\* text and its result for comparison
Prepend ==
    /\ m_pc = "parsed"
    /\ m_prev_text = <<>>
    /\ Len(m_text) > 0
    /\ \E ch \in {"-", "$"} : m_text' = <<ch>> \o m_text
    /\ m_prev_text' = m_text
    /\ m_prev_res' = m_res
    /\ m_pc' = "text"
    /\ UNCHANGED <<m_cents, m_res>>
    /\ UNCHANGED <<dvars, lvars, wvars>>

\* put a zero behind a parsed text that ends in a one-digit fraction,
\* keeping the text and its result for comparison
HasOneDigitFraction(t) ==
    /\ Len(t) >= 2
    /\ t[Len(t) - 1] = "."
    /\ t[Len(t)] \in DigitChars

PadFraction ==
    /\ m_pc = "parsed"
    /\ m_prev_text = <<>>
    /\ HasOneDigitFraction(m_text)
    /\ m_text' = m_text \o <<"0">>
    /\ m_prev_text' = m_text
    /\ m_prev_res' = m_res
    /\ m_pc' = "text"
    /\ UNCHANGED <<m_cents, m_res>>
    /\ UNCHANGED <<dvars, lvars, wvars>>

\* a five-field row whose price or cost column holds the given text
RowWithPrice(text) ==
    << <<"7">>, <<"T", "e", "a">>, text, <<"$", "1", ".", "2", "5">>, PriceTypeOpen >>

RowWithCost(text) ==
    << <<"7">>, <<"T", "e", "a">>, <<"$", "1", ".", "2", "5">>, text, PriceTypeOpen >>

\* decode a row that carries the parsed text as its price or as its cost
DecodeAsPrice ==
    /\ m_pc = "parsed"
    /\ m_prev_text = <<>>
    /\ l_pc = "idle"
    /\ \E row \in {RowWithPrice(m_text), RowWithCost(m_text)} :
          /\ l_row' = row
          /\ l_res' = ReadItem(ZeroItem, [kind |-> "row", raw_dat |-> row])
    /\ l_pc' = "decoded"
    /\ m_pc' = "in_row"
    /\ UNCHANGED <<m_cents, m_text, m_res, m_prev_text, m_prev_res, l_verify>>
    /\ UNCHANGED <<dvars, wvars>>

\* ------------------------------------------------------------------------
\* Inputs of the schema validator and of the record decoder
\* ------------------------------------------------------------------------

\* column names a header row may carry in place of the expected one
OtherNames ==
    {<<>>, <<"i", "d">>, <<"P", "r", "i", "c", "e">>, <<"n", "o", "t", "e">>}

ColumnNames == {expected_fields[i] : i \in 1..Len(expected_fields)} \cup OtherNames

WithoutColumn(row, i) == SubSeq(row, 1, i - 1) \o SubSeq(row, i + 1, Len(row))

\* header rows: the expected one, and rows with a column renamed, two
\* columns exchanged, a column missing, a column missing and another added
\* at the end, columns cut off at the end, or a column inserted
HeaderRows ==
    LET e == expected_fields
        n == Len(expected_fields)
    IN {e}
       \cup {[e EXCEPT ![i] = c] : i \in 1..n, c \in ColumnNames}
       \cup {[e EXCEPT ![i] = e[j], ![j] = e[i]] : i \in 1..n, j \in 1..n}
       \cup {WithoutColumn(e, i) : i \in 1..n}
       \cup {Append(WithoutColumn(e, i), c) : i \in 1..n, c \in ColumnNames}
       \cup {SubSeq(e, 1, k) : k \in 1..n}
       \cup {SubSeq(e, 1, k) \o <<c>> \o SubSeq(e, k + 1, n) : k \in 0..n, c \in ColumnNames}

IdTexts == {<<"7">>, <<"x">>}

DescriptionTexts == {<<"T", "e", "a">>, <<>>}

PriceTexts == {<<>>, <<"$", "1", ".", "2", "5">>, <<"1", ".", "x">>, <<"-">>}

CostTexts == {<<>>, <<"0", ".", "8", "0">>, <<"$", "$">>}

PriceTypeTexts == {PriceTypeSystem, PriceTypeOpen, <<"u", "n", "k", "n", "o", "w", "n">>, <<>>, <<"S", "y", "s", "t", "e", "m">>, <<"O", "P", "E", "N">>}

QuantityTexts == {<<>>, <<"1", "0">>, <<"-", "3">>, <<"q">>}

\* rows of one to six fields, every combination of the texts above
ShortRows ==
    LET six == {<<i, d, p, c, t, q>> : i \in IdTexts, d \in DescriptionTexts,
                                       p \in PriceTexts, c \in CostTexts,
                                       t \in PriceTypeTexts, q \in QuantityTexts}
    IN {SubSeq(r, 1, k) : r \in six, k \in 1..6}

\* the two fields of a modifier slot: name, price
SlotTexts ==
    {<<<<"H", "o", "t">>, <<"$", "0", ".", "3", "0">>>>, <<<<"I", "c", "e">>, <<"-", "$", "0", ".", "2", "5">>>>, <<<<>>, <<>>>>, <<<<"H", "o", "t">>, <<>>>>, <<<<>>, <<"$", "0", ".", "3", "0">>>>,
     <<<<"H", "o", "t">>, <<"1", ".", "x">>>>}

RECURSIVE FlattenSlots(_)
FlattenSlots(slots) ==
    IF Len(slots) = 0 THEN <<>> ELSE Head(slots) \o FlattenSlots(Tail(slots))

\* rows with six well-formed fields, then up to MaxSlots modifier pairs,
\* then nothing or a name without a price field
ModifierRows ==
    {base \o FlattenSlots(slots) \o last :
        base  \in {<<<<"7">>, <<"T", "e", "a">>, <<"$", "1", ".", "2", "5">>, <<"0", ".", "8", "0">>, PriceTypeSystem, <<"1", "0">>>>,
                   <<<<"7">>, <<>>, <<>>, <<>>, PriceTypeOpen, <<>>>>},
        slots \in UNION {[1..k -> SlotTexts] : k \in 0..MaxSlots},
        last  \in {<<>>, <<<<"H", "o", "t">>>>}}

DataRows == ShortRows \cup ModifierRows \cup {CoffeeRow}

\* ------------------------------------------------------------------------
\* The schema validator and the record decoder applied on their own
\* ------------------------------------------------------------------------

\* VerifyCsvFields on a reader whose first record is l_row
VerifyRow ==
    /\ l_pc = "header"
    /\ l_verify' = VerifyCsvFields([kind |-> "row", raw_dat |-> l_row])
    /\ l_pc' = "verified"
    /\ UNCHANGED <<l_row, l_res>>
    /\ UNCHANGED <<mvars, dvars, wvars>>

\* ReadItem on a fresh StockItem and a reader whose next record is l_row
DecodeRow ==
    /\ l_pc = "row"
    /\ l_res' = ReadItem(ZeroItem, [kind |-> "row", raw_dat |-> l_row])
    /\ l_pc' = "decoded"
    /\ UNCHANGED <<l_row, l_verify>>
    /\ UNCHANGED <<mvars, dvars, wvars>>

\* ------------------------------------------------------------------------
\* The conversion driver: main, doConversion, exitError
\* ------------------------------------------------------------------------

EXIT_SUCCESS == 0

EXIT_ERROR == 1

DriverIdle ==
    /\ pc = "idle"
    /\ input = <<>>
    /\ pos = 0
    /\ srcFp = "none"
    /\ dstFp = "none"
    /\ out = <<>>
    /\ at_least_one_item_written = FALSE
    /\ stock_items = <<>>
    /\ exit_status = 0
    /\ verify_calls = 0
    /\ read_calls = 0
    /\ header_res = "none"
    /\ last_read = "none"
    /\ write_failed = FALSE

\* the chunks doConversion writes
Opener == [kind |-> "opener", rec |-> Serialize(ZeroItem)]

Separator == [kind |-> "separator", rec |-> Serialize(ZeroItem)]

Closer == [kind |-> "closer", rec |-> Serialize(ZeroItem)]

Record(item) == [kind |-> "record", rec |-> Serialize(item)]

\* func exitError(err error): os.Exit(EXIT_ERROR).  os.Exit ends the process
\* at once; deferred calls are not run.
ExitError ==
    /\ pc' = "exited"
    /\ exit_status' = EXIT_ERROR

\* a write to dstFp whose error result is discarded
WriteIgnoringError(chunk) ==
    \E ok \in BOOLEAN :
        /\ out' = IF ok THEN Append(out, chunk) ELSE out
        /\ write_failed' = (write_failed \/ ~ok)

\* srcFp, err := os.Open(srcFile); exitError or defer srcFp.Close()
OpenSrc ==
    /\ pc = "open_src"
    /\ \/ /\ srcFp' = "open"
          /\ pc' = "create_dst"
          /\ UNCHANGED exit_status
       \/ /\ ExitError
          /\ UNCHANGED srcFp
    /\ UNCHANGED <<input, pos, dstFp, out, at_least_one_item_written,
                   stock_items, verify_calls, read_calls, header_res,
                   last_read, write_failed>>
    /\ UNCHANGED <<mvars, lvars, wvars>>

\* dstFp, err := os.Create(dstFile); exitError or defer dstFp.Close()
CreateDst ==
    /\ pc = "create_dst"
    /\ \/ /\ dstFp' = "open"
          /\ pc' = "verify"
          /\ UNCHANGED exit_status
       \/ /\ ExitError
          /\ UNCHANGED dstFp
    /\ UNCHANGED <<input, pos, srcFp, out, at_least_one_item_written,
                   stock_items, verify_calls, read_calls, header_res,
                   last_read, write_failed>>
    /\ UNCHANGED <<mvars, lvars, wvars>>

\* columns_err := VerifyCsvFields(*csvReader); exitError on failure
VerifyHeader_IgnoreError ==
    /\ pc = "verify"
    /\ LET rd == Read(input, pos)
           v  == VerifyCsvFields(rd)
       IN /\ pos' = IF rd.kind = "eof" THEN pos ELSE pos + 1
          /\ verify_calls' = verify_calls + 1
          /\ header_res' = IF v.ok THEN "ok" ELSE "err"
          /\ pc' = "begin"
          /\ UNCHANGED exit_status
    /\ UNCHANGED <<input, srcFp, dstFp, out, at_least_one_item_written,
                   stock_items, read_calls, last_read, write_failed>>
    /\ UNCHANGED <<mvars, lvars, wvars>>

VerifyHeader ==
    /\ pc = "verify"
    /\ LET rd == Read(input, pos)
           v  == VerifyCsvFields(rd)
       IN /\ pos' = IF rd.kind = "eof" THEN pos ELSE pos + 1
          /\ verify_calls' = verify_calls + 1
          /\ header_res' = IF v.ok THEN "ok" ELSE "err"
          /\ IF v.ok
             THEN pc' = "begin" /\ UNCHANGED exit_status
             ELSE ExitError
    /\ UNCHANGED <<input, srcFp, dstFp, out, at_least_one_item_written,
                   stock_items, read_calls, last_read, write_failed>>
    /\ UNCHANGED <<mvars, lvars, wvars>>

\* dstFp.WriteString("[\n    "); at_least_one_item_written := false
WriteOpener ==
    /\ pc = "begin"
    /\ WriteIgnoringError(Opener)
    /\ at_least_one_item_written' = FALSE
    /\ pc' = "read"
    /\ UNCHANGED <<input, pos, srcFp, dstFp, stock_items, exit_status,
                   verify_calls, read_calls, header_res, last_read>>
    /\ UNCHANGED <<mvars, lvars, wvars>>

\* a loop that treats end-of-input like any other read error
AfterRead_NoEofCase(kind) ==
    CASE kind = "eof"   -> ExitError
      [] kind = "err"   -> ExitError
      [] kind = "panic" -> pc' = "panic" /\ UNCHANGED exit_status
      [] OTHER          -> pc' = "write" /\ UNCHANGED exit_status

\* a loop that skips a row it cannot decode and goes on with the next
AfterRead_SkipBadRow(kind) ==
    CASE kind = "eof"   -> pc' = "end" /\ UNCHANGED exit_status
      [] kind = "err"   -> pc' = "read" /\ UNCHANGED exit_status
      [] kind = "panic" -> pc' = "panic" /\ UNCHANGED exit_status
      [] OTHER          -> pc' = "write" /\ UNCHANGED exit_status

\* a loop that ends quietly on any read error
AfterRead_ErrorEndsLoop(kind) ==
    CASE kind = "eof"   -> pc' = "end" /\ UNCHANGED exit_status
      [] kind = "err"   -> pc' = "end" /\ UNCHANGED exit_status
      [] kind = "panic" -> pc' = "panic" /\ UNCHANGED exit_status
      [] OTHER          -> pc' = "write" /\ UNCHANGED exit_status

\* if read_err != nil { if read_err == io.EOF { break } else { exitError } }
\* A run-time panic inside ReadItem unwinds doConversion instead.
AfterRead(kind) ==
    CASE kind = "eof"   -> pc' = "end" /\ UNCHANGED exit_status
      [] kind = "err"   -> ExitError
      [] kind = "panic" -> pc' = "panic" /\ UNCHANGED exit_status
      [] OTHER          -> pc' = "write" /\ UNCHANGED exit_status

\* var stock_item StockItem; read_err := stock_item.ReadItem(*csvReader)
\* The break on end-of-input leaves the loop body, and stock_item with it.
ReadItemStep ==
    /\ pc = "read"
    /\ LET rd == Read(input, pos)
           r  == ReadItem(ZeroItem, rd)
       IN /\ pos' = IF rd.kind = "eof" THEN pos ELSE pos + 1
          /\ read_calls' = read_calls + 1
          /\ last_read' = r.kind
          /\ stock_items' = IF r.kind = "eof" THEN stock_items
                            ELSE Append(stock_items, r.item)
          /\ AfterRead(r.kind)
    /\ UNCHANGED <<input, srcFp, dstFp, out, at_least_one_item_written,
                   verify_calls, header_res, write_failed>>
    /\ UNCHANGED <<mvars, lvars, wvars>>

\* json_bytes, encode_err := json.MarshalIndent(stock_item, ...)
\* _, write_err := dstFp.Write(json_bytes); exitError on failure.
\* Marshalling a StockItem has no failing case: Cents.MarshalJSON always
\* returns a JSON number.
WriteRecord ==
    /\ pc = "write"
    /\ LET stock_item == stock_items[Len(stock_items)]
           json_bytes == Record(stock_item)
       IN \E ok \in BOOLEAN :
            IF ok
            THEN /\ out' = Append(out, json_bytes)
                 /\ pc' = "separate"
                 /\ UNCHANGED <<exit_status, write_failed>>
            ELSE /\ write_failed' = TRUE
                 /\ ExitError
                 /\ UNCHANGED out
    /\ UNCHANGED <<input, pos, srcFp, dstFp, at_least_one_item_written,
                   stock_items, verify_calls, read_calls, header_res,
                   last_read>>
    /\ UNCHANGED <<mvars, lvars, wvars>>

\* a loop body whose StockItem is kept in a list of items
Separate_KeepItem ==
    /\ pc = "separate"
    /\ IF at_least_one_item_written
       THEN /\ WriteIgnoringError(Separator)
            /\ UNCHANGED at_least_one_item_written
       ELSE /\ at_least_one_item_written' = TRUE
            /\ UNCHANGED <<out, write_failed>>
    /\ UNCHANGED stock_items
    /\ pc' = "read"
    /\ UNCHANGED <<input, pos, srcFp, dstFp, exit_status, verify_calls,
                   read_calls, header_res, last_read>>
    /\ UNCHANGED <<mvars, lvars, wvars>>

\* if at_least_one_item_written { dstFp.WriteString(",\n    ") }
\* else { at_least_one_item_written = true }
\* and the end of the loop body, where stock_item goes out of scope
Separate ==
    /\ pc = "separate"
    /\ IF at_least_one_item_written
       THEN /\ WriteIgnoringError(Separator)
            /\ UNCHANGED at_least_one_item_written
       ELSE /\ at_least_one_item_written' = TRUE
            /\ UNCHANGED <<out, write_failed>>
    /\ stock_items' = SubSeq(stock_items, 1, Len(stock_items) - 1)
    /\ pc' = "read"
    /\ UNCHANGED <<input, pos, srcFp, dstFp, exit_status, verify_calls,
                   read_calls, header_res, last_read>>
    /\ UNCHANGED <<mvars, lvars, wvars>>

\* dstFp.WriteString("\n]\n")
WriteCloser ==
    /\ pc = "end"
    /\ WriteIgnoringError(Closer)
    /\ pc' = "return"
    /\ UNCHANGED <<input, pos, srcFp, dstFp, at_least_one_item_written,
                   stock_items, exit_status, verify_calls, read_calls,
                   header_res, last_read>>
    /\ UNCHANGED <<mvars, lvars, wvars>>

\* return nil: the deferred dstFp.Close() and srcFp.Close() run
Return ==
    /\ pc = "return"
    /\ dstFp' = "closed"
    /\ srcFp' = "closed"
    /\ pc' = "main"
    /\ UNCHANGED <<input, pos, out, at_least_one_item_written, stock_items,
                   exit_status, verify_calls, read_calls, header_res,
                   last_read, write_failed>>
    /\ UNCHANGED <<mvars, lvars, wvars>>

\* main: err is nil; os.Exit(EXIT_SUCCESS)
MainExit ==
    /\ pc = "main"
    /\ exit_status' = EXIT_SUCCESS
    /\ pc' = "exited"
    /\ UNCHANGED <<input, pos, srcFp, dstFp, out, at_least_one_item_written,
                   stock_items, verify_calls, read_calls, header_res,
                   last_read, write_failed>>
    /\ UNCHANGED <<mvars, lvars, wvars>>

\* a panic raised in ReadItem unwinds doConversion: its deferred Close calls
\* run, and the Go runtime ends the process with status 2
PanicUnwind ==
    /\ pc = "panic"
    /\ dstFp' = "closed"
    /\ srcFp' = "closed"
    /\ exit_status' = 2
    /\ pc' = "exited"
    /\ UNCHANGED <<input, pos, out, at_least_one_item_written, stock_items,
                   verify_calls, read_calls, header_res, last_read,
                   write_failed>>
    /\ UNCHANGED <<mvars, lvars, wvars>>

\* ------------------------------------------------------------------------
\* Specifications
\* ------------------------------------------------------------------------

\* the driver, run on every input file of InputFiles
Init ==
    /\ MoneyIdle
    /\ LibraryIdle
    /\ LargeIdle
    /\ pc = "open_src"
    /\ input \in InputFiles
    /\ pos = 0
    /\ srcFp = "none"
    /\ dstFp = "none"
    /\ out = <<>>
    /\ at_least_one_item_written = FALSE
    /\ stock_items = <<>>
    /\ exit_status = 0
    /\ verify_calls = 0
    /\ read_calls = 0
    /\ header_res = "none"
    /\ last_read = "none"
    /\ write_failed = FALSE

Next ==
    \/ OpenSrc
    \/ CreateDst
    \/ VerifyHeader
    \/ WriteOpener
    \/ ReadItemStep
    \/ WriteRecord
    \/ Separate
    \/ WriteCloser
    \/ Return
    \/ MainExit
    \/ PanicUnwind

Spec == Init /\ [][Next]_vars

\* MarshalJSON followed by CentsFromDollarString, on every cents value of
\* CentsInputs
RoundTripInit ==
    /\ DriverIdle
    /\ LibraryIdle
    /\ LargeIdle
    /\ m_pc = "cents"
    /\ m_cents \in CentsInputs
    /\ m_text = <<>>
    /\ m_res = CentsNil
    /\ m_prev_text = <<>>
    /\ m_prev_res = CentsNil

RoundTripNext == Format \/ ParseFormatted

SpecRoundTrip == RoundTripInit /\ [][RoundTripNext]_vars

\* CentsFromDollarString on every text of Texts, and on that text with a
\* sign or a currency symbol in front
MoneyInit ==
    /\ DriverIdle
    /\ LibraryIdle
    /\ LargeIdle
    /\ m_pc = "text"
    /\ m_cents = 0
    /\ m_text \in Texts
    /\ m_res = CentsNil
    /\ m_prev_text = <<>>
    /\ m_prev_res = CentsNil

MoneyNext == ParseText \/ Prepend \/ PadFraction \/ DecodeAsPrice

SpecMoney == MoneyInit /\ [][MoneyNext]_vars

\* format a value of 2^53 dollars or more
FormatLarge ==
    /\ w_pc = "cents"
    /\ w_text' = MarshalJSONOver(w_negative, w_over, w_cents)
    /\ w_pc' = "formatted"
    /\ UNCHANGED <<w_negative, w_over, w_cents>>
    /\ UNCHANGED <<mvars, dvars, lvars>>

\* Cents.MarshalJSON on the values of magnitude 2^53 dollars to
\* 2^53 + MaxOver dollars and 99 cents
LargeInit ==
    /\ MoneyIdle
    /\ DriverIdle
    /\ LibraryIdle
    /\ w_pc = "cents"
    /\ w_negative \in BOOLEAN
    /\ w_over \in 0..MaxOver
    /\ w_cents \in 0..99
    /\ w_text = <<>>

LargeNext == FormatLarge

SpecLarge == LargeInit /\ [][LargeNext]_vars

\* VerifyCsvFields on every header row of HeaderRows
HeaderInit ==
    /\ MoneyIdle
    /\ DriverIdle
    /\ LargeIdle
    /\ l_pc = "header"
    /\ l_row \in HeaderRows
    /\ l_verify = VerifyOk
    /\ l_res = ItemResult("none", "", ZeroItem)

HeaderNext == VerifyRow

SpecHeader == HeaderInit /\ [][HeaderNext]_vars

\* ReadItem on every row of DataRows
DecodeInit ==
    /\ MoneyIdle
    /\ DriverIdle
    /\ LargeIdle
    /\ l_pc = "row"
    /\ l_row \in DataRows
    /\ l_verify = VerifyOk
    /\ l_res = ItemResult("none", "", ZeroItem)

DecodeNext == DecodeRow

SpecDecode == DecodeInit /\ [][DecodeNext]_vars

\* ------------------------------------------------------------------------
\* Claims about the conversion driver
\* ------------------------------------------------------------------------

\* what ReadItem makes of data row k of a file (row 0 is the header)
Decoded(file, k) == ReadItem(ZeroItem, Read(file, k))

NumDataRows(file) == IF Len(file) = 0 THEN 0 ELSE Len(file) - 1

AllRowsDecode(file) ==
    \A k \in 1..NumDataRows(file) : Decoded(file, k).kind = "ok"

\* the record chunks among the chunks written
RecordsOf(chunks) == SelectSeq(chunks, LAMBDA c : c.kind = "record")

\* the records of the first n data rows of a file
RecordsOfRows(file, n) == [k \in 1..n |-> Record(Decoded(file, k).item)]

\* the records of data rows k.. of a file, a separator before every record
\* after the first
RECURSIVE SeparatedFrom(_, _)
SeparatedFrom(file, k) ==
    IF k > NumDataRows(file) THEN <<>>
    ELSE (IF k > 1 THEN <<Separator>> ELSE <<>>)
         \o <<Record(Decoded(file, k).item)>>
         \o SeparatedFrom(file, k + 1)

WellFormedArray(file) == <<Opener>> \o SeparatedFrom(file, 1) \o <<Closer>>

IsPrefix(a, b) == Len(a) <= Len(b) /\ a = SubSeq(b, 1, Len(a))

\* C1: for a valid header followed by rows that all decode, with every write
\* succeeding, the finished run has written the opener, the records in row
\* order with one separator before every record after the first, and the
\* closer.
SeparatorBeforeEachLaterRecord ==
    (/\ pc = "exited"
     /\ header_res = "ok"
     /\ AllRowsDecode(input)
     /\ ~write_failed)
    => out = WellFormedArray(input)

\* C2: for a file holding only a valid header, with every write succeeding,
\* the output is the opener immediately followed by the closer and the run
\* ends with the success status.
HeaderOnlyEmptyArray ==
    (/\ Len(input) = 1
     /\ header_res = "ok"
     /\ ~write_failed)
    => /\ IsPrefix(out, <<Opener, Closer>>)
       /\ pc = "exited" => (out = <<Opener, Closer>> /\ exit_status = EXIT_SUCCESS)

\* C2 witness: the header-only file was converted to opener, closer
HeaderOnlyWitness ==
    /\ pc = "exited"
    /\ input = <<Line(expected_fields)>>
    /\ out = <<Opener, Closer>>
    /\ exit_status = EXIT_SUCCESS

\* C3: once ReadItem has returned an error other than end-of-input for data
\* row k, the run has ended with a non-zero status, only the records of rows
\* 1..k-1 are in the output, and no line after row k has been read.
ReadErrorAborts ==
    last_read = "err"
    => /\ pc = "exited"
       /\ exit_status # EXIT_SUCCESS
       /\ pos = read_calls + 1
       /\ RecordsOf(out) = RecordsOfRows(input, read_calls - 1)

\* C3 witness: the second of three data rows failed to decode; the run ended
\* with one record written and the third row unread
ReadErrorWitness ==
    /\ last_read = "err"
    /\ read_calls = 2
    /\ Len(input) = 4
    /\ pos = 3
    /\ pc = "exited"
    /\ exit_status = EXIT_ERROR
    /\ Len(RecordsOf(out)) = 1

\* C4: VerifyCsvFields is called at most once, every run that opened its
\* files has called it exactly once by the time it ends, ReadItem is called
\* and output is written only after it accepted the header, and when it
\* fails the run has ended with no row read and nothing written.
HeaderCheckedOnceFirst ==
    /\ verify_calls <= 1
    /\ (pc \notin {"open_src", "create_dst", "verify"} /\ dstFp # "none")
       => verify_calls = 1
    /\ read_calls > 0 => (verify_calls = 1 /\ header_res = "ok")
    /\ out # <<>> => header_res = "ok"
    /\ header_res = "err"
       => /\ pc = "exited"
          /\ read_calls = 0
          /\ stock_items = <<>>
          /\ pos <= 1
          /\ out = <<>>

\* C4 witness: a header without price_type, followed by data rows, ended the
\* run after one check, with only the header line read and nothing written
HeaderFailureWitness ==
    /\ header_res = "err"
    /\ Len(input) >= 2
    /\ input[1] = Line(HeaderMissingPriceType)
    /\ verify_calls = 1
    /\ pos = 1
    /\ read_calls = 0
    /\ out = <<>>
    /\ pc = "exited"

\* C5: the exit status is 0 only when the header was accepted, every data row
\* was decoded and its record written, and the loop ended on end-of-input;
\* a header error or a decode error ends the run with a non-zero status.
ExitZeroOnlyOnFullSuccess ==
    /\ (pc = "exited" /\ exit_status = EXIT_SUCCESS)
       => /\ header_res = "ok"
          /\ last_read = "eof"
          /\ pos = Len(input)
          /\ read_calls = NumDataRows(input) + 1
          /\ AllRowsDecode(input)
          /\ RecordsOf(out) = RecordsOfRows(input, NumDataRows(input))
    /\ (header_res = "err" \/ last_read = "err")
       => (pc = "exited" /\ exit_status # EXIT_SUCCESS)

\* C5 witness: a run over two data rows ended with status 0 and two records
ExitZeroWitness ==
    /\ pc = "exited"
    /\ exit_status = EXIT_SUCCESS
    /\ NumDataRows(input) = 2
    /\ Len(RecordsOf(out)) = 2

\* C6: on every exit taken after both files were opened, the input handle
\* and the output handle have been closed when the process ends.
HandlesClosedOnEveryExit ==
    (pc = "exited" /\ srcFp # "none" /\ dstFp # "none")
    => (srcFp = "closed" /\ dstFp = "closed")

\* C7: at most one StockItem is held at any point, and none is held when the
\* next row is about to be read.
AtMostOneItemHeld ==
    /\ Len(stock_items) <= 1
    /\ pc = "read" => stock_items = <<>>

\* C7 witness: two rows were decoded and written, and the driver is about to
\* read again holding no item
StreamingWitness ==
    /\ pc = "read"
    /\ read_calls = 2
    /\ Len(RecordsOf(out)) = 2
    /\ stock_items = <<>>

\* ------------------------------------------------------------------------
\* Claims about the monetary functions
\* ------------------------------------------------------------------------

\* C8: round trip: parsing the text MarshalJSON produces for a cents value c
\* yields a present value equal to c.
RoundTrip ==
    m_pc = "roundtrip" => m_res = CentsVal(m_cents)

\* C8 witness: a value in -99..-1, printed with a zero dollars part, came back
RoundTripWitness ==
    /\ m_pc = "roundtrip"
    /\ m_cents = -25
    /\ m_text = <<"-", "0", ".", "2", "5">>
    /\ m_res = CentsVal(-25)

\* C9: for an amount text t, "$" + t parses to the same value as t, and
\* neither is an error.
DollarOptional ==
    (/\ m_pc = "parsed"
     /\ m_prev_text # <<>>
     /\ m_text = <<"$">> \o m_prev_text
     /\ IsAmountText(m_prev_text))
    => (m_res = m_prev_res /\ m_res.kind = "cents")

\* C9 witness: "1.25" parsed to 125 and then "$1.25" parsed to 125
DollarOptionalWitness ==
    /\ m_pc = "parsed"
    /\ m_prev_text = <<"1", ".", "2", "5">>
    /\ m_text = <<"$", "1", ".", "2", "5">>
    /\ m_prev_res = CentsVal(125)
    /\ m_res = CentsVal(125)

\* C10: for an accepted non-empty text t that does not start with '-',
\* "-" + t parses to the negation of what t parses to.
MinusNegates ==
    (/\ m_pc = "parsed"
     /\ m_prev_text # <<>>
     /\ m_text = <<"-">> \o m_prev_text
     /\ m_prev_text[1] # "-"
     /\ m_prev_res.kind = "cents")
    => m_res = CentsVal(-m_prev_res.val)

\* C10 witness: "$0.25" parsed to 25 and then "-$0.25" parsed to -25
MinusNegatesWitness ==
    /\ m_pc = "parsed"
    /\ m_prev_text = <<"$", "0", ".", "2", "5">>
    /\ m_text = <<"-", "$", "0", ".", "2", "5">>
    /\ m_prev_res = CentsVal(25)
    /\ m_res = CentsVal(-25)

\* C11: the empty text parses to the absent value, neither zero cents nor
\* an error; a row whose price (or cost) field is empty decodes to an item
\* whose Price (or Cost) is absent, and that field is serialized as null.
EmptyIsAbsent ==
    /\ (m_pc = "parsed" /\ m_text = <<>>) => m_res = CentsNil
    /\ (l_pc = "decoded" /\ m_text = <<>> /\ l_row = RowWithPrice(<<>>))
       => /\ l_res.kind = "ok"
          /\ l_res.item.Price = CentsNil
          /\ Serialize(l_res.item).price = <<"n", "u", "l", "l">>
    /\ (l_pc = "decoded" /\ m_text = <<>> /\ l_row = RowWithCost(<<>>))
       => /\ l_res.kind = "ok"
          /\ l_res.item.Cost = CentsNil
          /\ Serialize(l_res.item).cost = <<"n", "u", "l", "l">>

\* C11 witness: the empty text was parsed and then decoded as the price
\* field of a row; the item has no price and its price member is null
EmptyIsAbsentWitness ==
    /\ m_pc = "in_row"
    /\ m_text = <<>>
    /\ m_res = CentsNil
    /\ l_pc = "decoded"
    /\ l_row = RowWithPrice(<<>>)
    /\ l_res.kind = "ok"
    /\ l_res.item.Price = CentsNil
    /\ l_res.item.Cost = CentsVal(125)
    /\ Serialize(l_res.item).price = <<"n", "u", "l", "l">>

\* the text has one decimal point and the part behind it, read as an
\* integer, lies outside 0..99
HasFractionOutOfRange(text) ==
    /\ Len(text) > 0
    /\ LET str == IF text[1] = "-" THEN Tail(text) ELSE text
       IN /\ Len(str) > 0
          /\ LET parts == SplitDot(StripDollar(str))
             IN /\ Len(parts) = 2
                /\ ParseInt(parts[2]).ok
                /\ ParseInt(parts[2]).val \notin 0..99

\* C12: every text whose fractional part, read as an integer, lies outside
\* 0..99 is rejected with an error.
FractionOutOfRangeRejected ==
    (m_pc = "parsed" /\ HasFractionOutOfRange(m_text)) => m_res.kind = "err"

\* C13: a text ending in a one-digit fraction d parses to the same value as
\* the text with fraction d0.
OneDigitFractionIsTenths ==
    (/\ m_pc = "parsed"
     /\ m_prev_text # <<>>
     /\ m_text = m_prev_text \o <<"0">>
     /\ HasOneDigitFraction(m_prev_text)
     /\ m_prev_res.kind = "cents")
    => m_res = m_prev_res

\* ------------------------------------------------------------------------
\* Claims about the schema validator and the record decoder
\* ------------------------------------------------------------------------

\* C14: VerifyCsvFields returns ok exactly when the header row has 12 fields
\* and the field at every position equals the expected column name; with a
\* missing, extra, renamed or reordered column it returns an error.
HeaderAcceptedIffExpected ==
    l_pc = "verified"
    => (l_verify.ok <=> (/\ Len(l_row) = 12
                         /\ \A i \in 1..12 : l_row[i] = expected_fields[i]))

\* C14 witness: a header with the last two columns exchanged was rejected
HeaderRejectedWitness ==
    /\ l_pc = "verified"
    /\ l_row = [expected_fields EXCEPT ![11] = expected_fields[12],
                                       ![12] = expected_fields[11]]
    /\ ~l_verify.ok
    /\ l_verify.form = "first"
    /\ l_verify.expected = expected_fields[11]
    /\ l_verify.got = expected_fields[12]

\* C15: a row with fewer than 5 fields gives the error that names the field
\* count and the minimum 5, and the StockItem is left as it was: no field
\* was parsed or stored.
TooFewFieldsBeforeAnyField ==
    (l_pc = "decoded" /\ Len(l_row) < 5)
    => /\ l_res.kind = "err"
       /\ l_res.err = "too few fields"
       /\ l_res.args = <<Len(l_row), 5>>
       /\ l_res.item = ZeroItem

\* C15 witness: a four-field row with a numeric id was refused with counts
\* 4 and 5 and the item untouched
TooFewFieldsWitness ==
    /\ l_pc = "decoded"
    /\ l_row = <<<<"7">>, <<"T", "e", "a">>, <<"$", "1", ".", "2", "5">>, <<"0", ".", "8", "0">>>>
    /\ l_res.err = "too few fields"
    /\ l_res.args = <<4, 5>>
    /\ l_res.item = ZeroItem

\* an amount text that parses to a value or to the absent value
AmountOrEmpty(text) == CentsFromDollarString(text).kind \in {"nil", "cents"}

\* the first five fields and, when present, the quantity are well-formed
WellFormedBase(row) ==
    /\ Len(row) >= 5
    /\ ParseInt(row[1]).ok
    /\ AmountOrEmpty(row[3])
    /\ AmountOrEmpty(row[4])
    /\ row[5] \in {PriceTypeSystem, PriceTypeOpen}
    /\ Len(row) >= 6 => QuantityFromString(row[6]).kind # "err"

\* the number of complete name/price pairs from field index 6 on
CompletePairs(row) == IF Len(row) < 6 THEN 0 ELSE (Len(row) - 6) \div 2

\* every complete pair has a name and a price that parses to a value
WellFormedPairs(row) ==
    \A i \in 0..(CompletePairs(row) - 1) :
        /\ Len(row[7 + 2 * i]) > 0
        /\ CentsFromDollarString(row[8 + 2 * i]).kind = "cents"

\* C16: in an otherwise well-formed row, when the row holds the name field
\* of a modifier slot and ends before that slot's price field, decoding
\* fails with the one-of-two-fields error; when the row ends before the
\* slot's name field, decoding succeeds with the modifiers of the earlier
\* slots only.
ModifierPairing ==
    (l_pc = "decoded" /\ WellFormedBase(l_row) /\ WellFormedPairs(l_row))
    => \A slot \in 0..4 :
          /\ Len(l_row) = 7 + 2 * slot
             => /\ l_res.kind = "err"
                /\ l_res.err = "only one of two fields present"
          /\ Len(l_row) = 6 + 2 * slot
             => /\ l_res.kind = "ok"
                /\ Len(l_res.item.Modifiers) = slot

\* C16 witness: a row ending with the name of its second modifier slot was
\* refused
HalfModifierWitness ==
    /\ l_pc = "decoded"
    /\ l_row = <<<<"7">>, <<"T", "e", "a">>, <<"$", "1", ".", "2", "5">>, <<"0", ".", "8", "0">>, PriceTypeSystem, <<"1", "0">>,
                 <<"I", "c", "e">>, <<"-", "$", "0", ".", "2", "5">>, <<"H", "o", "t">>>>
    /\ l_res.kind = "err"
    /\ l_res.err = "only one of two fields present"

\* C17: after a successful decode Modifiers holds 0 to 4 entries, one per
\* complete name/price pair from field index 6 on, capped at 4; entry i has
\* the name of field 6+2i and the price parsed from field 7+2i.
ModifiersFollowColumns ==
    (l_pc = "decoded" /\ l_res.kind = "ok")
    => LET Modifiers == l_res.item.Modifiers
           pairs     == CompletePairs(l_row)
       IN /\ Len(Modifiers) \in 0..4
          /\ Len(Modifiers) = IF pairs > 4 THEN 4 ELSE pairs
          /\ \A i \in 0..(Len(Modifiers) - 1) :
                /\ Modifiers[i + 1].Name = l_row[7 + 2 * i]
                /\ CentsVal(Modifiers[i + 1].Price)
                       = CentsFromDollarString(l_row[8 + 2 * i])

\* C17 witness: a fourteen-field row decoded to four modifiers in column
\* order
FourModifiersWitness ==
    /\ l_pc = "decoded"
    /\ Len(l_row) = 14
    /\ l_res.kind = "ok"
    /\ l_res.item.Modifiers = << [Name |-> <<"H", "o", "t">>, Price |-> 30],
                                 [Name |-> <<"I", "c", "e">>, Price |-> -25],
                                 [Name |-> <<"I", "c", "e">>, Price |-> -25],
                                 [Name |-> <<"H", "o", "t">>, Price |-> 30] >>

\* C18: a row is decoded only when its price_type field is exactly "system"
\* or "open", and the item then carries that value; with any other text in
\* a row whose id, price and cost parse, the error cites that text.
PriceTypeValidated ==
    (l_pc = "decoded" /\ Len(l_row) >= 5)
    => /\ l_res.kind = "ok"
          => /\ l_row[5] \in {PriceTypeSystem, PriceTypeOpen}
             /\ l_res.item.Price_type = l_row[5]
       /\ (/\ l_row[5] \notin {PriceTypeSystem, PriceTypeOpen}
           /\ ParseInt(l_row[1]).ok
           /\ AmountOrEmpty(l_row[3])
           /\ AmountOrEmpty(l_row[4]))
          => /\ l_res.kind = "err"
             /\ l_res.err = "invalid price_type"
             /\ l_res.args = <<l_row[5]>>

\* C18 witness: a row whose price_type is "System" was refused, the error
\* citing "System"
PriceTypeCaseWitness ==
    /\ l_pc = "decoded"
    /\ Len(l_row) = 6
    /\ l_row[5] = <<"S", "y", "s", "t", "e", "m">>
    /\ l_res.kind = "err"
    /\ l_res.err = "invalid price_type"
    /\ l_res.args = <<<<"S", "y", "s", "t", "e", "m">>>>

\* C19: whenever ReadItem returns an error, the StockItem it was called on
\* holds no field value of the failing row.
NoPartialItemOnError ==
    (l_pc = "decoded" /\ l_res.kind = "err") => l_res.item = ZeroItem

\* C20: after an accepted header, a decoded 12-field row gives an item whose
\* fields are the parses of the row's fields by position; the Coffee row
\* gives id 111010, "Coffee", 125, 80, system, 100000 and the modifiers
\* (Small,-25), (Medium,0), (Large,30), written as 1.25, 0.80, -0.25, 0.00
\* and 0.30.
PositionalMapping ==
    (/\ pc = "separate"
     /\ header_res = "ok"
     /\ Len(input[pos].fields) = 12)
    => LET row  == input[pos].fields
           item == stock_items[Len(stock_items)]
           rec  == out[Len(out)].rec
       IN /\ last_read = "ok"
          /\ item.Item_id = ParseInt(row[1]).val
          /\ item.Description = row[2]
          /\ item.Price = CentsFromDollarString(row[3])
          /\ item.Cost = CentsFromDollarString(row[4])
          /\ item.Price_type = row[5]
          /\ item.Quantity_on_hand = QuantityFromString(row[6])
          /\ Len(item.Modifiers) = 3
          /\ \A i \in 0..2 :
                /\ item.Modifiers[i + 1].Name = row[7 + 2 * i]
                /\ CentsVal(item.Modifiers[i + 1].Price)
                       = CentsFromDollarString(row[8 + 2 * i])
          /\ row = CoffeeRow
             => /\ item = [Item_id          |-> 111010,
                           Description      |-> <<"C", "o", "f", "f", "e", "e">>,
                           Price            |-> CentsVal(125),
                           Cost             |-> CentsVal(80),
                           Price_type       |-> PriceTypeSystem,
                           Quantity_on_hand |-> [kind |-> "val", val |-> 100000],
                           Modifiers        |->
                               << [Name |-> <<"S", "m", "a", "l", "l">>, Price |-> -25],
                                  [Name |-> <<"M", "e", "d", "i", "u", "m">>, Price |-> 0],
                                  [Name |-> <<"L", "a", "r", "g", "e">>, Price |-> 30] >>]
                /\ out[Len(out)].kind = "record"
                /\ rec.price = <<"1", ".", "2", "5">>
                /\ rec.cost = <<"0", ".", "8", "0">>
                /\ rec.Modifiers[1].Price = <<"-", "0", ".", "2", "5">>
                /\ rec.Modifiers[2].Price = <<"0", ".", "0", "0">>
                /\ rec.Modifiers[3].Price = <<"0", ".", "3", "0">>

\* C20 witness: the Coffee row, first data row under the expected header,
\* was decoded and its record written with price 1.25
CoffeeWitness ==
    /\ pc = "separate"
    /\ header_res = "ok"
    /\ pos = 2
    /\ input[2].fields = CoffeeRow
    /\ stock_items[1].Item_id = 111010
    /\ stock_items[1].Price = CentsVal(125)
    /\ out[Len(out)].kind = "record"
    /\ out[Len(out)].rec.price = <<"1", ".", "2", "5">>
    /\ out[Len(out)].rec.Modifiers[1].Price = <<"-", "0", ".", "2", "5">>

\* ------------------------------------------------------------------------
\* Further claims about the driver and the library
\* ------------------------------------------------------------------------

\* C21: every failed write to the output is fatal: a run that ended with
\* status 0 has had every one of its writes succeed.
FailedWriteIsFatal ==
    (pc = "exited" /\ exit_status = EXIT_SUCCESS) => ~write_failed

\* C22: the dollars and cents digits MarshalJSON prints are exact for every
\* cents value: for a value of 2^53 + k dollars and r cents the text is the
\* sign, the decimal digits of 2^53 + k, a point and r in two digits.
LargeDigitsExact ==
    w_pc = "formatted"
    => w_text = (IF w_negative THEN <<"-">> ELSE <<>>)
                \o FormatOver(w_over) \o <<".">> \o FormatPad2(w_cents)

\* C23: a modifier slot whose name field is empty is accepted exactly when
\* its price field is empty: an otherwise well-formed row of up to 14 fields
\* in which every complete pair is either a name with a price or two empty
\* fields decodes without error, and a row holding an empty name with a
\* non-empty price is rejected.
EmptyNameOnlyWithEmptyPrice ==
    (/\ l_pc = "decoded"
     /\ WellFormedBase(l_row)
     /\ Len(l_row) \in {8, 10, 12, 14})
    => /\ (\A i \in 0..(CompletePairs(l_row) - 1) :
              \/ /\ Len(l_row[7 + 2 * i]) > 0
                 /\ CentsFromDollarString(l_row[8 + 2 * i]).kind = "cents"
              \/ /\ Len(l_row[7 + 2 * i]) = 0
                 /\ Len(l_row[8 + 2 * i]) = 0)
          => l_res.kind = "ok"
       /\ (\E i \in 0..(CompletePairs(l_row) - 1) :
              /\ Len(l_row[7 + 2 * i]) = 0
              /\ Len(l_row[8 + 2 * i]) > 0)
          => l_res.kind = "err"

\* C24: a modifier with a name must have a price.  In an otherwise
\* well-formed row whose first faulty pair has a name, an empty price gives
\* the no-cents-found error and a malformed price gives its parse error;
\* and every modifier of a decoded item has a non-empty name and the value
\* its price text parses to.
NamedModifierHasPrice ==
    l_pc = "decoded"
    => /\ l_res.kind = "ok"
          => \A i \in 0..(Len(l_res.item.Modifiers) - 1) :
                /\ Len(l_res.item.Modifiers[i + 1].Name) > 0
                /\ CentsFromDollarString(l_row[8 + 2 * i]).kind = "cents"
                /\ l_res.item.Modifiers[i + 1].Price
                       = CentsFromDollarString(l_row[8 + 2 * i]).val
       /\ WellFormedBase(l_row)
          => \A j \in 0..4 :
                (/\ j < CompletePairs(l_row)
                 /\ WellFormedPairs(SubSeq(l_row, 1, 6 + 2 * j))
                 /\ Len(l_row[7 + 2 * j]) > 0)
                => LET price == CentsFromDollarString(l_row[8 + 2 * j])
                   IN /\ price.kind = "nil"
                         => (l_res.kind = "err" /\ l_res.err = "no cents found")
                      /\ price.kind = "err"
                         => (l_res.kind = "err" /\ l_res.err = price.err)

\* C24 witness: a row whose second modifier has a name and an empty price
\* was refused with the no-cents-found error
MissingPriceWitness ==
    /\ l_pc = "decoded"
    /\ l_row = <<<<"7">>, <<"T", "e", "a">>, <<"$", "1", ".", "2", "5">>, <<"0", ".", "8", "0">>, PriceTypeSystem, <<"1", "0">>,
                 <<"I", "c", "e">>, <<"-", "$", "0", ".", "2", "5">>, <<"H", "o", "t">>, <<>>>>
    /\ l_res.kind = "err"
    /\ l_res.err = "no cents found"

\* the first position at which the row differs from the expected header
FirstMismatch(row) ==
    CHOOSE i \in 1..12 : /\ row[i] # expected_fields[i]
                         /\ \A j \in 1..(i - 1) : row[j] = expected_fields[j]

\* C25: when a 12-field header differs from the expected one at position i,
\* the error names the expected name and the offending value, and for i > 0
\* it names the expected name of position i-1 as well; the first-field form
\* is used for i = 0 only.
PrecedingFieldNamed ==
    (l_pc = "verified" /\ Len(l_row) = 12 /\ l_row # expected_fields)
    => LET i == FirstMismatch(l_row)
       IN /\ ~l_verify.ok
          /\ l_verify.expected = expected_fields[i]
          /\ l_verify.got = l_row[i]
          /\ i > 1 => /\ l_verify.form = "after"
                      /\ l_verify.after = expected_fields[i - 1]
          /\ l_verify.form = "first" => i = 1

\* a bound on the statements the driver has still to execute: four for
\* every line of the input not yet read, and those that lead from the
\* current position to the next read or to the exit
StepsLeft ==
    4 * (Len(input) - pos)
    + (CASE pc = "open_src"   -> 13
         [] pc = "create_dst" -> 12
         [] pc = "verify"     -> 11
         [] pc = "begin"      -> 10
         [] pc = "write"      -> 9
         [] pc = "separate"   -> 8
         [] pc = "read"       -> 6
         [] pc = "end"        -> 5
         [] pc = "return"     -> 4
         [] pc = "main"       -> 3
         [] pc = "panic"      -> 1
         [] OTHER             -> 0)

\* the positions of the driver at which a statement is waiting to be
\* executed; each is the guard of one action of Next
Statements ==
    {"open_src", "create_dst", "verify", "begin", "read", "write", "separate",
     "end", "return", "main", "panic"}

\* C26: every run of the driver ends: each statement executed lowers the
\* bound StepsLeft, which never falls below zero, and the process is at a
\* statement it can execute as long as it has not exited.  End-of-input is told
\* apart from a decode error: a run whose last ReadItem returned end-of-input goes on to
\* write the closer and exits with status 0 (the closer being the last chunk
\* of the output when no write failed), while a run whose last ReadItem
\* returned an error exits with status 1.
TerminatesAndEndOfInputIsSuccess ==
    /\ [][StepsLeft' < StepsLeft]_vars
    /\ [](StepsLeft >= 0)
    /\ [](pc \in Statements \cup {"exited"})
    /\ [](last_read = "eof" => pc \in {"end", "return", "main", "exited"})
    /\ []((pc = "exited" /\ last_read = "eof")
            => /\ exit_status = EXIT_SUCCESS
               /\ ~write_failed => out[Len(out)] = Closer)
    /\ []((pc = "exited" /\ last_read = "err") => exit_status = EXIT_ERROR)

\* C26 witness: a run over three data rows met end-of-input on its fourth
\* read, wrote the closer last and exited with status 0
EndOfInputWitness ==
    /\ pc = "exited"
    /\ last_read = "eof"
    /\ read_calls = 4
    /\ NumDataRows(input) = 3
    /\ ~write_failed
    /\ out[Len(out)] = Closer
    /\ exit_status = EXIT_SUCCESS

\* C27: CentsFromDollarString is total: for every text it returns the
\* absent value, a cents value or an error, and never faults reading a
\* character past the end of what is left of the text.
ParseIsTotal ==
    m_pc = "parsed" => m_res.kind \in {"nil", "cents", "err"}

\* C28: for every row of 5 or more fields, none of them a minus sign alone,
\* ReadItem ends in a StockItem or in an error, never in an
\* index-out-of-range fault of the modifier loop.
ModifierStoreInRange ==
    (/\ l_pc = "decoded"
     /\ Len(l_row) >= 5
     /\ \A i \in 1..Len(l_row) : l_row[i] # <<"-">>)
    => l_res.kind \in {"ok", "err"}

\* the text with its leading '-', if any, and then its leading '$', if
\* any, taken off
AfterSignAndSymbol(text) ==
    LET str == IF Len(text) > 0 /\ text[1] = "-" THEN Tail(text) ELSE text
    IN IF Len(str) > 0 /\ str[1] = "$" THEN Tail(str) ELSE str

\* C29: a returned cents value is negative only if the text begins with
\* '-', and a text with a minus sign after the optional leading '-' and
\* '$' is an error.
SignOnlyFromLeadingMinus ==
    m_pc = "parsed"
    => /\ (m_res.kind = "cents" /\ m_res.val < 0) => m_text[1] = "-"
       /\ (\E i \in 1..Len(AfterSignAndSymbol(m_text)) :
              AfterSignAndSymbol(m_text)[i] = "-")
          => m_res.kind = "err"

====
